---- MODULE Spec2Model ----
(***************************************************************************)
(* Route Scout (src/app.py, src/utils.py): the Streamlit script and the    *)
(* route utilities it calls.                                               *)
(*                                                                         *)
(* Units.  A coordinate is an integer number of hundredths of a degree.    *)
(* A distance is an integer number of metres.  A rating and a rating       *)
(* threshold are tenths of a star, a distance ceiling is tenths of a mile. *)
(* A quotient by 1609.34 is kept as an exact fraction [num, den].          *)
(*                                                                         *)
(* Python's None is the empty tuple and a present value x is <<x>>, so a   *)
(* list that is None (<<>>) differs from a list that is empty (<< <<>> >>).*)
(***************************************************************************)
EXTENDS Integers, Sequences, FiniteSets, TLC

VARIABLES
    results,                   \* st.session_state.results
    route_points,              \* st.session_state.route_points
    filtered_results,          \* st.session_state.filtered_results
    results_unfiltered_count,  \* st.session_state.results_unfiltered_count
    uploaded_file,             \* the file uploader's value in this rerun
    pc,                        \* the block of app.py the script is about to run
    encode_calls,              \* calls of encode_polyline made in this rerun
    search_calls,              \* calls of search_along_route made in this rerun
    filter_pass,               \* the filter pass of this rerun, if it ran
    map_calls,                 \* calls of generate_map made in this rerun
    fn_call,                   \* a direct call of one utility: its arguments
    fn_ret                     \* ... and what it returned

vars == <<results, route_points, filtered_results, results_unfiltered_count,
          uploaded_file, pc, encode_calls, search_calls, filter_pass,
          map_calls, fn_call, fn_ret>>

----------------------------------------------------------------------------
(* Bounds of the model *)

GridMax == 2        \* coordinates range over 0..GridMax hundredths of a degree
MaxN == 12          \* longest route handed to downsample_points directly
MaxM == 6           \* largest max_points handed to downsample_points directly
EncodeExtra == 2    \* encode_polyline is tried up to 500 + EncodeExtra points
LongExtra == 2      \* distance_from_route is tried up to 200 + LongExtra points
MaxResults == 3     \* longest result list handed to the filter loop directly

----------------------------------------------------------------------------
(* Python values *)

None == <<>>
Some(x) == <<x>>

\* bool(x) of an optional number: None and 0 are falsy
TruthyNum(o) == o # None /\ o[1] # 0
\* bool(x) of an optional string: None and "" are falsy
TruthyStr(o) == o # None /\ o[1] # ""
\* bool(x) of an optional list: None and [] are falsy
TruthyList(o) == o # None /\ Len(o[1]) > 0

Abs(x) == IF x < 0 THEN -x ELSE x
MaxOf(a, b) == IF a >= b THEN a ELSE b
MinOf(a, b) == IF a <= b THEN a ELSE b

Grid == 0..GridMax
Coordinates == Grid \X Grid

----------------------------------------------------------------------------
(* utils.py: geometry *)

\* haversine_distance on the grid, in metres rounded to the nearest metre:
\* row = |lat2 - lat1|, column = |lon2 - lon1|, both in hundredths of a degree
\* (R = 6371000; the values are those the Python function returns)
HaversineMetres ==
    << <<   0, 1112, 2224, 3336>>,
       <<1112, 1573, 2486, 3516>>,
       <<2224, 2486, 3145, 4009>>,
       <<3336, 3516, 4009, 4718>> >>

haversine_distance(lat1, lon1, lat2, lon2) ==
    HaversineMetres[Abs(lat2 - lat1) + 1][Abs(lon2 - lon1) + 1]

Inf == 999999999         \* float('inf')
SampleDivisor == 100     \* len(route_points) // 100

\* route_points[::step]
Slice(points, step) ==
    [j \in 1..((Len(points) + step - 1) \div step) |-> points[(j - 1) * step + 1]]

\* the for loop of distance_from_route over sampled_points[lo..hi], entered
\* with min_dist; the range is walked left to right, in two halves
RECURSIVE MinDistLoop(_, _, _, _, _, _)
MinDistLoop(place_lat, place_lon, sampled_points, lo, hi, min_dist) ==
    IF lo > hi THEN min_dist
    ELSE IF lo = hi
         THEN LET dist == haversine_distance(place_lat, place_lon,
                                             sampled_points[lo][1], sampled_points[lo][2])
              IN IF dist < min_dist THEN dist ELSE min_dist
         ELSE LET mid == (lo + hi) \div 2
                  left == MinDistLoop(place_lat, place_lon, sampled_points, lo, mid, min_dist)
              \* (the test makes TLC compute `left` before it walks the right half)
              IN IF left >= 0
                 THEN MinDistLoop(place_lat, place_lon, sampled_points, mid + 1, hi, left)
                 ELSE left

SampleStepFull(n) == 1

SampleStep(n) == MaxOf(1, n \div SampleDivisor)

distance_from_route(place_lat, place_lon, points) ==
    LET step == SampleStep(Len(points))
        sampled_points == Slice(points, step)
    IN MinDistLoop(place_lat, place_lon, sampled_points, 1, Len(sampled_points), Inf)

----------------------------------------------------------------------------
(* utils.py: route compression *)

DefaultMaxPoints == 500

DownsampleIndicesStride(n, max_points) ==
    [i \in 1..max_points |-> ((i - 1) * n) \div max_points]

\* indices = [int(i * step) for i in range(max_points - 1)] + [len(points) - 1]
\* (0-based; for the lengths of this model int(i * step) in floating point
\*  equals the exact floor of i * (n - 1) / (max_points - 1))
DownsampleIndices(n, max_points) ==
    [i \in 1..max_points |->
        IF i < max_points THEN ((i - 1) * (n - 1)) \div (max_points - 1)
                          ELSE n - 1]

downsample_points(points, max_points) ==
    IF Len(points) <= max_points THEN points
    ELSE LET indices == DownsampleIndices(Len(points), max_points)
         IN [i \in 1..Len(indices) |-> points[indices[i] + 1]]

\* polyline.encode: each coordinate is rounded to 5 decimals (here: times 1000)
\* and written as the difference to the previous one; the packing of the
\* differences into characters is left out
polyline_encode(points) ==
    [i \in 1..Len(points) |->
        IF i = 1 THEN <<points[1][1] * 1000, points[1][2] * 1000>>
        ELSE <<(points[i][1] - points[i - 1][1]) * 1000,
               (points[i][2] - points[i - 1][2]) * 1000>>]

encode_polyline(points) ==
    polyline_encode(downsample_points(points, DefaultMaxPoints))

----------------------------------------------------------------------------
(* utils.py: route files *)

\* A GPX file holds the points of its tracks, routes and waypoints; a KML file
\* holds its coordinate tuples as <<lon, lat>>, in document order; a file that
\* is not valid markup has malformed = TRUE and makes the parser raise.
RouteFile(ext, malformed, tracks, routes, waypoints, coordinates) ==
    [ext |-> ext, malformed |-> malformed, tracks |-> tracks, routes |-> routes,
     waypoints |-> waypoints, coordinates |-> coordinates]

Raised == [raised |-> TRUE, points |-> <<>>]
Parsed(points) == [raised |-> FALSE, points |-> points]

parse_gpx(file) ==
    IF file.malformed THEN Raised
    ELSE IF Len(file.tracks) > 0 THEN Parsed(file.tracks)
    ELSE IF Len(file.routes) > 0 THEN Parsed(file.routes)
    ELSE Parsed(file.waypoints)

parse_kml(file) ==
    IF file.malformed THEN Raised
    ELSE Parsed([i \in 1..Len(file.coordinates) |->
                    <<file.coordinates[i][2], file.coordinates[i][1]>>])

parse_route(file, file_type) ==
    IF file_type = "gpx" THEN parse_gpx(file)
    ELSE IF file_type = "kml" THEN parse_kml(file)
    ELSE Raised

----------------------------------------------------------------------------
(* utils.py: the search client *)

MilesDen == 160934       \* 1609.34, times 100

\* x / 1609.34 for x in metres, as an exact fraction of miles
Miles(metres) == [num |-> metres * 100, den |-> MilesDen]

\* the tenths of a mile printed by f"{x / 1609.34:.1f} mi"
DisplayTenths(metres) == (2000 * metres + MilesDen) \div (2 * MilesDen)

\* a place of the service's response; an absent attribute is None
ServicePlace(id, latitude, longitude, rating, priceLevel, openNow) ==
    [id |-> id, latitude |-> latitude, longitude |-> longitude, rating |-> rating,
     priceLevel |-> priceLevel, openNow |-> openNow]

\* price_map.get(price_raw, "")
price_map(price_raw) ==
    CASE price_raw = "PRICE_LEVEL_FREE" -> "Free"
      [] price_raw = "PRICE_LEVEL_INEXPENSIVE" -> "$"
      [] price_raw = "PRICE_LEVEL_MODERATE" -> "$$"
      [] price_raw = "PRICE_LEVEL_EXPENSIVE" -> "$$$"
      [] price_raw = "PRICE_LEVEL_VERY_EXPENSIVE" -> "$$$$"
      [] OTHER -> ""

\* dist_from_route of one place: lines 179-181
dist_from_route(place, points) ==
    IF TruthyList(points) /\ TruthyNum(place.latitude) /\ TruthyNum(place.longitude)
    THEN Some(distance_from_route(place.latitude[1], place.longitude[1], points[1]))
    ELSE None

\* the URL of a place: its kind, and what it is built from
maps_url(place) ==
    IF TruthyStr(place.id) THEN [kind |-> "place_id", of |-> place.id]
    ELSE IF TruthyNum(place.latitude) /\ TruthyNum(place.longitude)
         THEN [kind |-> "query", of |-> <<place.latitude[1], place.longitude[1]>>]
         ELSE [kind |-> "", of |-> <<>>]

\* the record appended for one place; distance_display is None for "" and the
\* tenths of a mile for "x.y mi"
ResultRecord(place, points) ==
    LET dist == dist_from_route(place, points)
        price_raw == IF place.priceLevel = None THEN "" ELSE place.priceLevel[1]
    IN [rating |-> place.rating,
        lat |-> place.latitude,
        lon |-> place.longitude,
        price_level |-> Some(price_map(price_raw)),
        price_raw |-> price_raw,
        open_now |-> place.openNow,
        distance_m |-> dist,
        distance_mi |-> IF TruthyNum(dist) THEN Some(Miles(dist[1])) ELSE None,
        distance_display |-> IF TruthyNum(dist) THEN Some(DisplayTenths(dist[1])) ELSE None,
        maps_url |-> maps_url(place)]

\* the service's answer to one request: an HTTP status (0: no answer, the
\* request itself raised), whether its body is JSON and, if so, the places
Response(status, json_ok, places) ==
    [status |-> status, json_ok |-> json_ok, places |-> places]

\* requests.post, raise_for_status or response.json() raises
RequestFails(response) == response.status # 200 \/ ~response.json_ok

\* the JSON body of the request
RequestBody(encoded_polyline, query, max_results) ==
    [textQuery |-> query, maxResultCount |-> max_results,
     encodedPolyline |-> encoded_polyline]

SearchRetrying(encoded_polyline, query, api_key, max_results, points, response) ==
    LET body == RequestBody(encoded_polyline, query, max_results)
    IN IF RequestFails(response)
       THEN [requests |-> <<body, body>>, raised |-> TRUE, results |-> <<>>]
       ELSE [requests |-> <<body>>, raised |-> FALSE,
             results |-> [i \in 1..Len(response.places) |->
                             ResultRecord(response.places[i], points)]]

\* search_along_route, given the response to its request (`points` is its
\* argument route_points): the requests it posted, whether it raised (the
\* post itself, or raise_for_status), and the list it returned
search_along_route(encoded_polyline, query, api_key, max_results, points, response) ==
    LET body == RequestBody(encoded_polyline, query, max_results)
    IN IF RequestFails(response)
       THEN [requests |-> <<body>>, raised |-> TRUE, results |-> <<>>]
       ELSE [requests |-> <<body>>, raised |-> FALSE,
             results |-> [i \in 1..Len(response.places) |->
                             ResultRecord(response.places[i], points)]]

----------------------------------------------------------------------------
(* app.py: the filter loop, lines 159-181 *)

Settings(min_rating, price_filter, open_now_only, max_distance_mi) ==
    [min_rating |-> min_rating, price_filter |-> price_filter,
     open_now_only |-> open_now_only, max_distance_mi |-> max_distance_mi]

RatingSkipsBelowOnly(place, f) ==
    TruthyNum(place.rating) /\ place.rating[1] < f.min_rating

\* lines 163-166
RatingSkips(place, f) ==
    \/ TruthyNum(place.rating) /\ place.rating[1] < f.min_rating
    \/ f.min_rating > 0 /\ ~TruthyNum(place.rating)

PriceSkipsUnknown(place, f) ==
    f.price_filter # {} /\ (place.price_level = None \/ place.price_level[1] \notin f.price_filter)

\* lines 169-171
PriceSkips(place, f) ==
    /\ f.price_filter # {}
    /\ (place.price_level = None \/ place.price_level[1] \notin f.price_filter)
    /\ TruthyStr(place.price_level)

\* lines 174-175
OpenNowSkips(place, f) ==
    f.open_now_only /\ place.open_now # Some(TRUE)

DistanceSkipsUnknown(place, f) ==
    \/ place.distance_mi = None
    \/ place.distance_mi[1].num * 10 > f.max_distance_mi * place.distance_mi[1].den

\* lines 178-179: distance_mi > max_distance_mi, the ceiling in tenths of a mile
DistanceSkips(place, f) ==
    /\ place.distance_mi # None /\ place.distance_mi[1].num # 0
    /\ place.distance_mi[1].num * 10 > f.max_distance_mi * place.distance_mi[1].den

\* one turn of the loop body: does it reach filtered_results.append(place)?
Appended(place, f) ==
    IF RatingSkips(place, f) THEN FALSE
    ELSE IF PriceSkips(place, f) THEN FALSE
    ELSE IF OpenNowSkips(place, f) THEN FALSE
    ELSE IF DistanceSkips(place, f) THEN FALSE
    ELSE TRUE

RECURSIVE FilterLoop(_, _, _, _)
FilterLoop(places, f, i, filtered) ==
    IF i > Len(places) THEN filtered
    ELSE FilterLoop(places, f, i + 1,
                    IF Appended(places[i], f) THEN Append(filtered, places[i])
                                              ELSE filtered)

filter_results(places, f) == FilterLoop(places, f, 1, <<>>)

----------------------------------------------------------------------------
(* Session state of a fresh browser session (app.py, lines 102-108) and the *)
(* observations of a rerun before the script has run                        *)

NoCall == [fn |-> "none"]

FreshSession ==
    /\ results = None
    /\ route_points = None
    /\ filtered_results = None
    /\ results_unfiltered_count = None

NoObservations ==
    /\ encode_calls = <<>>
    /\ search_calls = <<>>
    /\ filter_pass = None
    /\ map_calls = <<>>

AppIdle ==
    /\ FreshSession
    /\ NoObservations
    /\ uploaded_file = None
    /\ pc = "upload"

AppUnchanged ==
    UNCHANGED <<results, route_points, filtered_results, results_unfiltered_count,
                uploaded_file, pc, encode_calls, search_calls, filter_pass,
                map_calls, fn_call>>

----------------------------------------------------------------------------
(* app.py: one rerun of the script, block by block *)

DefaultMaxResults == 20

\* the files a user uploads
GpxTrack2 == RouteFile("gpx", FALSE, <<<<1, 1>>, <<1, 2>>>>, <<<<0, 0>>>>, <<>>, <<>>)
GpxWaypoint1 == RouteFile("gpx", FALSE, <<>>, <<>>, <<<<2, 2>>>>, <<>>)
GpxEmpty == RouteFile("gpx", FALSE, <<>>, <<>>, <<>>, <<>>)
KmlLine3 == RouteFile("kml", FALSE, <<>>, <<>>, <<>>, <<<<0, 1>>, <<1, 1>>, <<2, 1>>>>)
KmlBroken == RouteFile("kml", TRUE, <<>>, <<>>, <<>>, <<>>)
Files == {GpxTrack2, GpxWaypoint1, GpxEmpty, KmlLine3, KmlBroken}

\* the places the service answers with
Cafe == ServicePlace(Some("abc"), Some(1), Some(1), Some(45), Some("PRICE_LEVEL_MODERATE"), Some(TRUE))
Kiosk == ServicePlace(None, Some(2), Some(1), None, None, None)
Diner == ServicePlace(Some("xyz"), Some(2), Some(2), Some(30), Some("PRICE_LEVEL_INEXPENSIVE"), Some(FALSE))
Equator == ServicePlace(Some("eq"), Some(0), Some(1), Some(50), Some("PRICE_LEVEL_FREE"), Some(TRUE))

AppResponses ==
    {Response(200, TRUE, <<>>), Response(200, TRUE, <<Cafe>>),
     Response(200, TRUE, <<Kiosk, Diner>>), Response(200, TRUE, <<Cafe, Kiosk, Diner>>),
     Response(200, TRUE, <<Equator>>), Response(200, FALSE, <<>>),
     Response(401, TRUE, <<>>), Response(500, FALSE, <<>>), Response(0, FALSE, <<>>)}

Queries == {"", "bars"}
ApiKeys == {"", "key"}

AppSettings ==
    {Settings(r, p, o, d) : r \in {0, 40}, p \in {{}, {"$"}}, o \in BOOLEAN, d \in {6, 50}}

RouteAfterUploadUnchecked(old, file) ==
    IF file = None THEN old
    ELSE LET parsed == parse_route(file[1], file[1].ext)
         IN IF parsed.raised THEN None ELSE Some(parsed.points)

\* lines 111-124: st.session_state.route_points after the upload block
RouteAfterUpload(old, file) ==
    IF file = None THEN old
    ELSE LET parsed == parse_route(file[1], file[1].ext)
         IN IF parsed.raised THEN None
            ELSE IF Len(parsed.points) < 2 THEN None
            ELSE Some(parsed.points)

\* a rerun starts: the widgets have their values, the script runs lines 102-124
UploadHandling ==
    /\ pc = "upload"
    /\ \E file \in {None} \cup {Some(f) : f \in Files} :
          /\ uploaded_file' = file
          /\ route_points' = RouteAfterUpload(route_points, file)
    /\ encode_calls' = <<>>
    /\ search_calls' = <<>>
    /\ filter_pass' = None
    /\ map_calls' = <<>>
    /\ pc' = "search"
    /\ UNCHANGED <<results, filtered_results, results_unfiltered_count, fn_call, fn_ret>>

\* lines 127-153 with the Search button not clicked
SearchNotClicked ==
    /\ pc = "search"
    /\ pc' = "display_results"
    /\ UNCHANGED <<results, route_points, filtered_results, results_unfiltered_count,
                   uploaded_file, encode_calls, search_calls, filter_pass, map_calls,
                   fn_call, fn_ret>>

\* lines 127-153 with the Search button clicked
SearchHandling ==
    /\ pc = "search"
    /\ \E query \in Queries, api_key \in ApiKeys, response \in AppResponses :
          IF ~TruthyList(route_points) \/ query = "" \/ api_key = ""
          THEN UNCHANGED <<results, results_unfiltered_count, encode_calls, search_calls>>
          ELSE LET encoded == encode_polyline(route_points[1])
                   found == search_along_route(encoded, query, api_key,
                                               DefaultMaxResults, route_points, response)
               IN /\ encode_calls' = <<route_points>>
                  /\ search_calls' =
                        <<[encoded_polyline |-> encoded, query |-> query,
                           api_key |-> api_key, route_points |-> route_points,
                           response |-> response,
                           requests |-> found.requests, raised |-> found.raised]>>
                  /\ IF found.raised
                     THEN UNCHANGED <<results, results_unfiltered_count>>
                     ELSE /\ results' = Some(found.results)
                          /\ results_unfiltered_count' = Some(Len(found.results))
    /\ pc' = "display_results"
    /\ UNCHANGED <<route_points, filtered_results, uploaded_file, filter_pass,
                   map_calls, fn_call, fn_ret>>

\* lines 156-216
DisplayResults ==
    /\ pc = "display_results"
    /\ IF TruthyList(results)
       THEN \E f \in AppSettings :
               LET out == filter_results(results[1], f)
               IN /\ filter_pass' = Some([settings |-> f, out |-> out,
                                          stored |-> Len(out) > 0])
                  /\ filtered_results' = IF Len(out) > 0 THEN Some(out)
                                                         ELSE filtered_results
       ELSE UNCHANGED <<filter_pass, filtered_results>>
    /\ pc' = "display_map"
    /\ UNCHANGED <<results, route_points, results_unfiltered_count, uploaded_file,
                   encode_calls, search_calls, map_calls, fn_call, fn_ret>>

\* st.session_state.get(key, default)
session_state_get(present, value, default) == IF present THEN value ELSE default

\* lines 219-231; the key filtered_results is in the session state since line 108
DisplayMap ==
    /\ pc = "display_map"
    /\ IF TruthyList(route_points)
       THEN map_calls' = <<[route_points |-> route_points,
                            places |-> session_state_get(TRUE, filtered_results, results)]>>
       ELSE UNCHANGED map_calls
    /\ pc' = "upload"
    /\ UNCHANGED <<results, route_points, filtered_results, results_unfiltered_count,
                   uploaded_file, encode_calls, search_calls, filter_pass,
                   fn_call, fn_ret>>

Init ==
    /\ AppIdle
    /\ fn_call = NoCall
    /\ fn_ret = None

Next == UploadHandling \/ SearchNotClicked \/ SearchHandling \/ DisplayResults \/ DisplayMap

Spec == Init /\ [][Next]_vars

\* the search of this rerun returned a list
Searched == search_calls # <<>> /\ ~search_calls[1].raised /\ pc = "display_results"

\* C2: in every record search_along_route returns, distance_mi is present
\* exactly when distance_m is, a distance of 0 metres included, and is then
\* distance_m / 1609.34
C2_MilesIffMetres ==
    Searched =>
        \A i \in 1..Len(results[1]) :
            LET r == results[1][i]
            IN /\ r.distance_mi # None <=> r.distance_m # None
               /\ r.distance_mi # None => r.distance_mi[1] = Miles(r.distance_m[1])

\* C7: search_along_route computes distance_from_route for a place exactly when
\* the place has a latitude and a longitude (0 included) and the route is not
\* empty; otherwise the three distance fields are absent
C7_DistanceWhenCoordinate ==
    Searched =>
        \A i \in 1..Len(results[1]) :
            LET r == results[1][i]
                place == search_calls[1].response.places[i]
                route == search_calls[1].route_points
                expected == place.latitude # None /\ place.longitude # None
                                /\ TruthyList(route)
            IN IF expected
               THEN r.distance_m = Some(distance_from_route(place.latitude[1],
                                                            place.longitude[1], route[1]))
               ELSE /\ r.distance_m = None
                    /\ r.distance_mi = None
                    /\ r.distance_display = None

\* C3: encode_polyline and search_along_route are called only with the session's
\* route of at least 2 coordinates, a query and an API key; a shorter route is
\* never held, compressed, sent or measured against
C3_SearchNeedsRoute ==
    /\ route_points = None \/ Len(route_points[1]) >= 2
    /\ \A i \in 1..Len(encode_calls) :
          encode_calls[i] # None /\ Len(encode_calls[i][1]) >= 2
    /\ \A i \in 1..Len(search_calls) :
          LET call == search_calls[i]
          IN /\ call.route_points # None /\ Len(call.route_points[1]) >= 2
             /\ call.route_points = route_points
             /\ call.query # ""
             /\ call.api_key # ""
             /\ encode_calls = <<call.route_points>>
             /\ Len(call.encoded_polyline) >= 2
    /\ \A i \in 1..Len(map_calls) :
          TruthyList(map_calls[i].route_points) /\ Len(map_calls[i].route_points[1]) >= 2

\* a search on the route of an earlier rerun: no file is in the uploader
C3_Witness ==
    /\ search_calls # <<>>
    /\ uploaded_file = None
    /\ Len(search_calls[1].route_points[1]) = 3

\* C9: a search posts one request; when it fails the caller leaves results and
\* results_unfiltered_count as they were; they are only ever replaced by the
\* whole list, empty or not, of a search that succeeded
C9_AllOrNothing ==
    [][/\ (pc = "search" /\ search_calls' # <<>>) =>
            /\ Len(search_calls') = 1
            /\ Len(search_calls'[1].requests) = 1
            /\ search_calls'[1].raised <=>
                  (search_calls'[1].response.status # 200 \/ ~search_calls'[1].response.json_ok)
            /\ search_calls'[1].raised =>
                  /\ results' = results
                  /\ results_unfiltered_count' = results_unfiltered_count
       /\ (results' # results \/ results_unfiltered_count' # results_unfiltered_count) =>
            /\ pc = "search"
            /\ search_calls' # <<>>
            /\ ~search_calls'[1].raised
            /\ results' # None
            /\ Len(results'[1]) = Len(search_calls'[1].response.places)
            /\ results_unfiltered_count' = Some(Len(search_calls'[1].response.places))
      ]_vars

\* a search failed after an earlier one had found places: they are still there
C9_Witness ==
    /\ search_calls # <<>>
    /\ search_calls[1].raised
    /\ TruthyList(results)
    /\ results_unfiltered_count = Some(Len(results[1]))

\* the rerun has drawn its map
MapDrawn == pc = "upload" /\ map_calls # <<>>

\* C10: with results to show, the map gets this rerun's filter output when one
\* was stored, and all the results when no filtered list has been stored
C10_MapPlaces ==
    (MapDrawn /\ TruthyList(results)) =>
        /\ (filter_pass # None /\ filter_pass[1].stored) =>
              map_calls[1].places = Some(filter_pass[1].out)
        /\ filtered_results = None => map_calls[1].places = results

----------------------------------------------------------------------------
(* Direct calls of downsample_points and encode_polyline *)

\* route shapes with pairwise distinct coordinates
LineRoute(n) == [i \in 1..n |-> <<i, 2 * i>>]
ZigzagRoute(n) == [i \in 1..n |-> <<i % 3, n - i>>]
ShapedRoutes(n) == {LineRoute(n), ZigzagRoute(n)}

DownsampleCalls ==
    {[fn |-> "downsample_points", points |-> p, max_points |-> m] :
        p \in UNION {ShapedRoutes(n) : n \in 2..MaxN}, m \in 2..MaxM}

EncodeLengths == (2..3) \cup ((DefaultMaxPoints - 1)..(DefaultMaxPoints + EncodeExtra))

EncodeCalls ==
    {[fn |-> "encode_polyline", points |-> p, max_points |-> DefaultMaxPoints] :
        p \in UNION {ShapedRoutes(n) : n \in EncodeLengths}}

InitDownsample ==
    /\ AppIdle
    /\ fn_call \in DownsampleCalls \cup EncodeCalls
    /\ fn_ret = None

CallDownsample ==
    /\ fn_call.fn = "downsample_points"
    /\ fn_ret = None
    /\ fn_ret' = Some(downsample_points(fn_call.points, fn_call.max_points))
    /\ AppUnchanged

CallEncode ==
    /\ fn_call.fn = "encode_polyline"
    /\ fn_ret = None
    /\ fn_ret' = Some(encode_polyline(fn_call.points))
    /\ AppUnchanged

NextDownsample == CallDownsample \/ CallEncode

SpecDownsample == InitDownsample /\ [][NextDownsample]_vars

\* the coordinate (in 1e-5 degrees) that the differences encoded[lo..hi] add up to
RECURSIVE DecodedSum(_, _, _)
DecodedSum(encoded, lo, hi) ==
    IF lo > hi THEN <<0, 0>>
    ELSE IF lo = hi THEN encoded[lo]
         ELSE LET mid == (lo + hi) \div 2
                  a == DecodedSum(encoded, lo, mid)
                  b == DecodedSum(encoded, mid + 1, hi)
              IN <<a[1] + b[1], a[2] + b[2]>>

\* C1: for a route of n >= 2 coordinates and max_points >= 2, downsample_points
\* returns min(n, max_points) coordinates, the first and the last of them the
\* route's first and last, and the route itself when n <= max_points; and
\* encode_polyline encodes at most 500 points, from the route's first to its last
C1_DownsampleBounded ==
    fn_ret # None =>
        LET pts == fn_call.points
            n == Len(pts)
            m == fn_call.max_points
            out == fn_ret[1]
        IN /\ Len(out) = MinOf(n, m)
           /\ Len(out) <= m
           /\ fn_call.fn = "downsample_points" =>
                /\ out[1] = pts[1]
                /\ out[Len(out)] = pts[n]
                /\ (n <= m => out = pts)
           /\ fn_call.fn = "encode_polyline" =>
                /\ out[1] = <<pts[1][1] * 1000, pts[1][2] * 1000>>
                /\ DecodedSum(out, 1, Len(out)) = <<pts[n][1] * 1000, pts[n][2] * 1000>>

C1_Witness ==
    /\ fn_call.fn = "downsample_points"
    /\ fn_ret # None
    /\ Len(fn_call.points) > fn_call.max_points + 1
    /\ Len(fn_ret[1]) = fn_call.max_points

----------------------------------------------------------------------------
(* Direct calls of distance_from_route *)

\* a route of n vertices at `far`, but for vertex j at `near`
SpikeRoute(n, j, far, near) == [i \in 1..n |-> IF i = j THEN near ELSE far]

DistanceLengths == (1..3) \cup ((2 * SampleDivisor - 1)..(2 * SampleDivisor + LongExtra))

SpikePositions(n) == {1, 2, 3, n - 1, n} \cap (1..n)

DistanceRoutes ==
    UNION {{SpikeRoute(n, j, far, near) :
                j \in SpikePositions(n), far \in {<<0, 0>>, <<GridMax, 1>>},
                near \in Coordinates} : n \in DistanceLengths}

DistanceCalls ==
    {[fn |-> "distance_from_route", place_lat |-> c[1], place_lon |-> c[2], points |-> p] :
        c \in Coordinates, p \in DistanceRoutes}

InitDistance ==
    /\ AppIdle
    /\ fn_call \in DistanceCalls
    /\ fn_ret = None

CallDistance ==
    /\ fn_call.fn = "distance_from_route"
    /\ fn_ret = None
    /\ fn_ret' = Some(distance_from_route(fn_call.place_lat, fn_call.place_lon,
                                          fn_call.points))
    /\ AppUnchanged

NextDistance == CallDistance

SpecDistance == InitDistance /\ [][NextDistance]_vars

\* the 0-based indices 0, k, 2k, ... below n, k = max(1, floor(n / 100))
SampledIndices(n) ==
    LET k == IF n \div 100 >= 1 THEN n \div 100 ELSE 1
    IN {i \in 0..(n - 1) : i % k = 0}

PointDistance(call, i) ==
    haversine_distance(call.place_lat, call.place_lon,
                       call.points[i + 1][1], call.points[i + 1][2])

----------------------------------------------------------------------------
(* Direct runs of the filter loop on result lists of any content *)

\* a result record as far as the filter loop reads it
FilterPlace(rating, price_level, open_now, distance_mi) ==
    [rating |-> rating, price_level |-> price_level, open_now |-> open_now,
     distance_mi |-> distance_mi]

Ratings == {None, Some(0), Some(30), Some(40), Some(45)}
PriceLevels == {None, Some(""), Some("Free"), Some("$"), Some("$$")}
OpenNows == {None, Some(TRUE), Some(FALSE)}
\* no distance, 0 mi, 0.69 mi (1112 m), exactly 1 mi, 1.95 mi (3145 m)
DistancesMi == {None, Some(Miles(0)), Some(Miles(1112)),
                Some([num |-> MilesDen, den |-> MilesDen]), Some(Miles(3145))}

AllFilterPlaces ==
    {FilterPlace(r, p, o, d) : r \in Ratings, p \in PriceLevels, o \in OpenNows,
                               d \in DistancesMi}

\* the places the longer lists are made of
Rated45 == FilterPlace(Some(45), None, None, None)
Rated30 == FilterPlace(Some(30), None, None, None)
Unknown == FilterPlace(None, None, None, None)
Priced2 == FilterPlace(None, Some("$$"), None, None)
OpenNear == FilterPlace(Some(40), Some("$"), Some(TRUE), Some(Miles(1112)))
ListPlaces == {Rated45, Rated30, Unknown, Priced2, OpenNear}

FilterLists ==
    {<<>>} \cup {<<p>> : p \in AllFilterPlaces}
           \cup UNION {[1..n -> ListPlaces] : n \in 2..MaxResults}

FilterSettings ==
    {Settings(r, p, o, d) : r \in {0, 5, 40}, p \in {{}, {"$"}, {"$", "$$$"}},
                            o \in BOOLEAN, d \in {0, 6, 10, 50}}

InitFilter ==
    /\ AppIdle
    /\ fn_call \in {[fn |-> "filter_results", results |-> l, settings |-> f] :
                        l \in FilterLists, f \in FilterSettings}
    /\ fn_ret = None

CallFilter ==
    /\ fn_call.fn = "filter_results"
    /\ fn_ret = None
    /\ fn_ret' = Some(filter_results(fn_call.results, fn_call.settings))
    /\ AppUnchanged

NextFilter == CallFilter

SpecFilter == InitFilter /\ [][NextFilter]_vars

\* the four predicates as the specification words them
RatingPasses(place, f) ==
    IF f.min_rating = 0 THEN TRUE
    ELSE place.rating # None /\ place.rating[1] >= f.min_rating

RecognizedTiers == {"Free", "$", "$$", "$$$", "$$$$"}

PricePasses(place, f) ==
    IF f.price_filter = {} THEN TRUE
    ELSE IF place.price_level = None \/ place.price_level[1] \notin RecognizedTiers THEN TRUE
    ELSE place.price_level[1] \in f.price_filter

OpenNowPasses(place, f) ==
    f.open_now_only => place.open_now = Some(TRUE)

DistancePasses(place, f) ==
    \/ place.distance_mi = None
    \/ place.distance_mi[1].num * 10 <= f.max_distance_mi * place.distance_mi[1].den

AllPass(place, f) ==
    RatingPasses(place, f) /\ PricePasses(place, f) /\ OpenNowPasses(place, f)
        /\ DistancePasses(place, f)

\* one check of the loop applied to a whole list
OnePass(places, f, k) ==
    SelectSeq(places, LAMBDA place :
        CASE k = 1 -> ~RatingSkips(place, f)
          [] k = 2 -> ~PriceSkips(place, f)
          [] k = 3 -> ~OpenNowSkips(place, f)
          [] k = 4 -> ~DistanceSkips(place, f))

InOrder(places, f, order) ==
    OnePass(OnePass(OnePass(OnePass(places, f, order[1]), f, order[2]), f, order[3]),
            f, order[4])

Orders == {o \in [1..4 -> 1..4] : \A i, j \in 1..4 : i # j => o[i] # o[j]}

\* C4: the filter pass returns, in their order, exactly the results that satisfy
\* all four predicates, whatever the order the four checks are applied in
C4_FilterConjunction ==
    fn_ret # None =>
        LET f == fn_call.settings
        IN /\ fn_ret[1] = SelectSeq(fn_call.results, LAMBDA place : AllPass(place, f))
           /\ \A o \in Orders : InOrder(fn_call.results, f, o) = fn_ret[1]

\* several checks are active, one place is kept and one dropped
C4_Witness ==
    /\ fn_ret # None
    /\ fn_call.settings.open_now_only
    /\ fn_call.settings.min_rating > 0
    /\ fn_call.settings.price_filter # {}
    /\ Len(fn_call.results) = 3
    /\ fn_ret[1] = <<OpenNear>>

\* C5: the rating check drops a place without rating when min_rating is not 0,
\* drops a place rated below min_rating, drops no place rated min_rating or
\* more, and drops nothing when min_rating is 0
C5_RatingFilter ==
    fn_ret # None =>
        LET f == fn_call.settings
            kept(i) == \E j \in 1..Len(fn_ret[1]) : fn_ret[1][j] = fn_call.results[i]
            others(place) == ~PriceSkips(place, f) /\ ~OpenNowSkips(place, f)
                                /\ ~DistanceSkips(place, f)
        IN \A i \in 1..Len(fn_call.results) :
              LET place == fn_call.results[i]
              IN /\ (place.rating = None /\ f.min_rating # 0) => ~kept(i)
                 /\ (place.rating # None /\ place.rating[1] < f.min_rating) => ~kept(i)
                 /\ (place.rating # None /\ place.rating[1] >= f.min_rating /\ others(place))
                        => kept(i)
                 /\ (f.min_rating = 0 /\ others(place)) => kept(i)

\* ratings [4.5, None, 3.0] with min_rating 4.0 yield exactly [4.5]
C5_Witness ==
    /\ fn_ret # None
    /\ fn_call.results = <<Rated45, Unknown, Rated30>>
    /\ fn_call.settings = Settings(40, {}, FALSE, 50)
    /\ fn_ret[1] = <<Rated45>>

\* C6: the price check keeps a place without a recognized tier, drops a place
\* whose recognized tier is not in a non-empty allowed set, keeps a place whose
\* tier is in the set, and drops nothing when the set is empty
C6_PriceFilter ==
    fn_ret # None =>
        LET f == fn_call.settings
            kept(i) == \E j \in 1..Len(fn_ret[1]) : fn_ret[1][j] = fn_call.results[i]
            others(place) == ~RatingSkips(place, f) /\ ~OpenNowSkips(place, f)
                                /\ ~DistanceSkips(place, f)
        IN \A i \in 1..Len(fn_call.results) :
              LET place == fn_call.results[i]
                  recognized == place.price_level # None
                                    /\ place.price_level[1] \in RecognizedTiers
              IN /\ (~recognized /\ others(place)) => kept(i)
                 /\ (recognized /\ f.price_filter # {}
                        /\ place.price_level[1] \notin f.price_filter) => ~kept(i)
                 /\ (recognized /\ place.price_level[1] \in f.price_filter /\ others(place))
                        => kept(i)
                 /\ (f.price_filter = {} /\ others(place)) => kept(i)

\* prices [$$, None] with the allowed set {$} yield exactly [None]
C6_Witness ==
    /\ fn_ret # None
    /\ fn_call.results = <<Priced2, Unknown>>
    /\ fn_call.settings = Settings(0, {"$"}, FALSE, 50)
    /\ fn_ret[1] = <<Unknown>>

====
